---- MODULE Spec2Model ----
(***************************************************************************)
(* A model of the crm_utils ingestion scripts (scripts/ingest.py,          *)
(* scripts/ingest_data.py, scripts/all_ingestor.py): the four database     *)
(* tables, the ingestion entry points that append to them, and the string  *)
(* cleaners they apply.                                                    *)
(*                                                                         *)
(* A string is a sequence of one-character strings; pandas' missing value  *)
(* (NaN / None) is the value NaN below, which is no string.  A DataFrame   *)
(* is a sequence of rows, a row a record of its columns.  A table of the   *)
(* database is the sequence of the rows appended to it: to_sql(...,        *)
(* if_exists='append') is the only write the scripts issue, and the model  *)
(* puts no constraint of its own on a table (the repository holds no       *)
(* schema).                                                                *)
(***************************************************************************)
EXTENDS Naturals, Sequences, FiniteSets, TLC

VARIABLES
    clients,            \* table clients
    dup_name_clients,   \* table dup_name_clients
    estimates,          \* table estimates
    invoices,           \* table invoices
    run,                \* the ingest_est_inv run in progress (its file loop), or Idle
    last,               \* what the last operation was given and how it ended
    call,               \* a call of a cleaner on its own (the cleaner specifications)
    config,             \* the configuration file the entry points read
    main                \* the all_ingestor.py script in progress, or MainIdle

vars == <<clients, dup_name_clients, estimates, invoices, run, last, call, config, main>>

dbvars == <<clients, dup_name_clients, estimates, invoices, run, last, config, main>>

\* What a run of an entry point on its own leaves alone.
env == <<call, config, main>>

----------------------------------------------------------------------------
(* Values and strings *)

NaN == <<"NaN">>

IsStr(v) == v # NaN

NUL == "\\0"

\* str.strip() with no argument strips the characters str.isspace() accepts.
Whitespace == {" ", "\t", "\n", "\r", "\f"}

RECURSIVE lstrip(_)
lstrip(s) ==
    IF s # <<>> /\ Head(s) \in Whitespace THEN lstrip(Tail(s)) ELSE s

RECURSIVE rstrip(_)
rstrip(s) ==
    IF s # <<>> /\ s[Len(s)] \in Whitespace
    THEN rstrip(SubSeq(s, 1, Len(s) - 1))
    ELSE s

strip(s) == rstrip(lstrip(s))

\* re.sub of a character class by one character.
replace_class(s, class, by) ==
    [i \in 1..Len(s) |-> IF s[i] \in class THEN by ELSE s[i]]

\* str.replace(c, '') / re.sub of a character class by the empty string.
remove_class(s, class) == SelectSeq(s, LAMBDA c : c \notin class)

IsPrefix(p, s) == Len(p) <= Len(s) /\ SubSeq(s, 1, Len(p)) = p

RECURSIVE AllStrings(_, _)
AllStrings(alphabet, n) ==
    IF n = 0 THEN {<<>>}
    ELSE LET shorter == AllStrings(alphabet, n - 1)
         IN  shorter \cup {Append(s, c) : s \in shorter, c \in alphabet}

----------------------------------------------------------------------------
(* pandas, as far as the scripts use it *)

\* DataFrame.rename(columns=mapping): a header the mapping does not name stays.
rename(df, mapping) ==
    LET new(k) == IF k \in DOMAIN mapping THEN mapping[k] ELSE k
    IN  [i \in DOMAIN df |->
            [c \in {new(k) : k \in DOMAIN df[i]} |->
                df[i][CHOOSE k \in DOMAIN df[i] : new(k) = c]]]

\* df[col] = v
assign(df, col, v) == [i \in DOMAIN df |-> (col :> v) @@ df[i]]

\* A cell of a row of a table: NULL in a column the row was written without.
cell(row, col) == IF col \in DOMAIN row THEN row[col] ELSE NaN

\* The rows of df whose index is in keep, in the order of df.
RECURSIVE take(_, _, _)
take(df, keep, i) ==
    IF i > Len(df) THEN <<>>
    ELSE (IF i \in keep THEN <<df[i]>> ELSE <<>>) \o take(df, keep, i + 1)

\* DataFrame.dropna(subset=subset)
dropna(df, subset) ==
    take(df, {i \in DOMAIN df : \A c \in subset : df[i][c] # NaN}, 1)

\* DataFrame.drop_duplicates(subset=[col], keep=False): every row of a group
\* of equal values is dropped, which is not what ingest_clients_2 asks for.
drop_duplicates_none(df, col) ==
    take(df, {i \in DOMAIN df : \A j \in DOMAIN df : j # i => df[j][col] # df[i][col]}, 1)

\* DataFrame.drop_duplicates(subset=[col], keep='first'); two missing values
\* count as equal.
drop_duplicates_first(df, col) ==
    take(df, {i \in DOMAIN df : \A j \in DOMAIN df : j < i => df[j][col] # df[i][col]}, 1)

\* df[df[col].duplicated()]: the default keep='first' marks the later rows
\* of a group alone, which is not what ingest_clients_2 asks for.
duplicated_later(df, col) ==
    take(df, {i \in DOMAIN df : \E j \in DOMAIN df : j < i /\ df[j][col] = df[i][col]}, 1)

\* df[df[col].duplicated(keep=False)]
duplicated_all(df, col) ==
    take(df, {i \in DOMAIN df : \E j \in DOMAIN df : j # i /\ df[j][col] = df[i][col]}, 1)

Digits == {"0", "1", "2", "3", "4", "5", "6", "7", "8", "9"}

RECURSIVE lstrip_zeros(_)
lstrip_zeros(s) ==
    IF Len(s) > 1 /\ Head(s) = "0" THEN lstrip_zeros(Tail(s)) ELSE s

\* pd.to_numeric(errors='coerce') on one value: a numeral is read (its leading
\* zeros go), anything else becomes missing.
to_numeric(v) ==
    IF IsStr(v) /\ strip(v) # <<>> /\ \A i \in 1..Len(strip(v)) : strip(v)[i] \in Digits
    THEN lstrip_zeros(strip(v))
    ELSE NaN

\* The number a numeral stands for.
RECURSIVE num_value(_)
num_value(s) ==
    IF s = <<>> THEN 0
    ELSE 10 * num_value(SubSeq(s, 1, Len(s) - 1))
         + (CHOOSE d \in 0..9 : ToString(d) = s[Len(s)])

\* The values of a column.
column(df, col) == {df[i][col] : i \in DOMAIN df}

----------------------------------------------------------------------------
(* scripts/ingest_data.py: clean_df_cols *)

bad_chars == {NUL, "\n", "\r", "\t", "'", "\"", "\\", "%", "_", ";"}

\* Two variants the cleaner is compared with: the strip left out, and the
\* strip done before the replacement.
str_clean_no_strip(v) ==
    IF IsStr(v) THEN replace_class(v, bad_chars, " ") ELSE NaN

str_clean_strip_first(v) ==
    IF IsStr(v) THEN replace_class(strip(v), bad_chars, " ") ELSE NaN

\* One element of df[col].str.replace(bad_chars, ' ', regex=True).str.strip():
\* the .str methods leave a missing value missing.
str_clean(v) ==
    IF IsStr(v) THEN strip(replace_class(v, bad_chars, " ")) ELSE NaN

clean_df_cols(df, cols) ==
    [i \in DOMAIN df |->
        [c \in DOMAIN df[i] |->
            IF c \in cols THEN str_clean(df[i][c]) ELSE df[i][c]]]

----------------------------------------------------------------------------
(* scripts/ingest.py: clean_string and the length caps of clean_dataframe *)

clean_string(value) ==
    IF IsStr(value) THEN remove_class(strip(value), {"\""}) ELSE value

\* The (column, max_len) pairs of the clients / dup_name_clients branch.
client_caps ==
    [full_name |-> 42, first_name |-> 20, last_name |-> 20,
     email_address |-> 35, phone_mobile |-> 16, phone_other |-> 16,
     address |-> 50, address_2 |-> 50, city |-> 24, state_province |-> 24,
     private_notes |-> 150]

\* The estimates / invoices branch caps full_name alone.
est_inv_caps == [full_name |-> 42]

caps_of(table_name) ==
    IF table_name \in {"clients", "dup_name_clients"} THEN client_caps
    ELSE est_inv_caps

\* x[:max_len - 1]: a cut that keeps one character too few.
cap_one_short(x, max_len) ==
    IF IsStr(x) /\ Len(x) > max_len THEN SubSeq(x, 1, max_len - 1) ELSE x

\* x[:max_len] if isinstance(x, str) and len(x) > max_len else x
cap(x, max_len) ==
    IF IsStr(x) /\ Len(x) > max_len THEN SubSeq(x, 1, max_len) ELSE x

\* What clean_dataframe makes of one value of a capped column: clean_string
\* is mapped over every object column first, the cap comes after it.
capped_value(table_name, col, value) ==
    cap(clean_string(value), caps_of(table_name)[col])

----------------------------------------------------------------------------
(* scripts/ingest.py: clean_dataframe *)

required_columns ==
    [clients |-> {"full_name"}, dup_name_clients |-> {"full_name"},
     estimates |-> {"estimate_number", "full_name"},
     invoices |-> {"invoice_number", "full_name"}]

number_column(table_name) ==
    IF table_name = "estimates" THEN "estimate_number" ELSE "invoice_number"

Joist == <<"j", "o", "i", "s", "t">>

\* datetime.now(): the runs of a behaviour all happen on one day.
now == <<"7">>

\* A check that finds every name among the existing clients.
invalid_names_unchecked(df, existing_clients) == {}

\* df[~df['full_name'].isin(existing_clients['full_name'])]['full_name'].unique()
invalid_names(df, existing_clients) == column(df, "full_name") \ existing_clients

\* clean_dataframe(df, table_name, engine), for the columns the model keeps:
\* the key and the name of a row (the amounts and the dates of an estimate or
\* invoice, and the contact columns of a client, are coerced column by column
\* and take no part in what is kept). existing_clients is what SELECT
\* full_name FROM clients returns. The result names the exception raised
\* ("" when none), the frame returned, the number of rows reported dropped and
\* the names reported invalid.
clean_dataframe(df, table_name, existing_clients) ==
    LET mapped == [i \in DOMAIN df |->
                      [c \in DOMAIN df[i] |-> clean_string(df[i][c])]]
        absent == {c \in required_columns[table_name] :
                      \E i \in DOMAIN mapped : c \notin DOMAIN mapped[i]}
        kept == dropna(mapped, required_columns[table_name])
        limits == caps_of(table_name)
        capped == [i \in DOMAIN kept |->
                      [c \in DOMAIN kept[i] |->
                          IF c \in DOMAIN limits THEN cap(kept[i][c], limits[c])
                          ELSE kept[i][c]]]
        numeric == IF table_name \in {"clients", "dup_name_clients"}
                   THEN "joist_client_id" ELSE number_column(table_name)
        typed == [i \in DOMAIN capped |->
                     ("source" :> Joist) @@ ("ingested_time" :> now)
                     @@ (numeric :> to_numeric(capped[i][numeric]))
                     @@ capped[i]]
        invalid == IF table_name \in {"estimates", "invoices"}
                   THEN invalid_names(typed, existing_clients) ELSE {}
    IN  IF absent # {}
        THEN [error |-> "ValueError", df |-> <<>>, dropped |-> 0, invalid |-> {}]
        ELSE IF invalid # {}
        THEN [error |-> "ValueError", df |-> <<>>,
              dropped |-> Len(mapped) - Len(kept), invalid |-> invalid]
        ELSE [error |-> "", df |-> typed,
              dropped |-> Len(mapped) - Len(kept), invalid |-> {}]

----------------------------------------------------------------------------
(* The database and the runs *)

MaxRows == 3

\* config.ini: whether the file is there, and the sections it holds with all
\* their keys (a section that lacks a key counts as lacking: the lookup of the
\* key raises the same KeyError).
FullConfig == [exists |-> TRUE, sections |-> {"DATABASE", "PATHS"}]

Configs ==
    {[exists |-> FALSE, sections |-> {}]}
    \cup {[exists |-> TRUE, sections |-> ss] : ss \in SUBSET {"DATABASE", "PATHS"}}

\* The entry points that test what config.read returns.
checks_config_read ==
    {"ingest_estimate_invoice", "ingest_clients_with_estimates", "all_ingestor"}

\* The sections an entry point reads before it goes on.
config_sections(entry) ==
    IF entry \in {"ingest_estimate_invoice", "ingest_clients_with_estimates",
                  "update_client_join_date"}
    THEN {"DATABASE"}
    ELSE IF entry = "all_ingestor" THEN {"PATHS"}
    ELSE {"DATABASE", "PATHS"}

\* An entry point that reads the configuration whatever the file holds.
load_config_unchecked(entry, cfg) == ""

\* The exception the configuration prologue of an entry point raises, "" when
\* it raises none. config.read of a file that is not there returns an empty
\* list: an entry point that does not test it fails on its first lookup.
load_config(entry, cfg) ==
    IF ~cfg.exists /\ entry \in checks_config_read THEN "FileNotFoundError"
    ELSE IF ~cfg.exists \/ ~(config_sections(entry) \subseteq cfg.sections)
    THEN "KeyError"
    ELSE ""

MainIdle == [pc |-> "idle", calls |-> <<>>, wrote |-> 0]

Idle == [op |-> "idle", table |-> ""]

NoOp == [op |-> "none"]

NoCall == [fn |-> "none"]

InitDb ==
    /\ clients = <<>>
    /\ dup_name_clients = <<>>
    /\ estimates = <<>>
    /\ invoices = <<>>
    /\ run = Idle
    /\ last = NoOp
    /\ config = FullConfig
    /\ main = MainIdle

Before ==
    [clients |-> Len(clients), dup_name_clients |-> Len(dup_name_clients),
     estimates |-> Len(estimates), invoices |-> Len(invoices)]

\* The record of an operation: what it was given, the exception that ended it
\* ("" when it returned), the rows it reported dropped, the names it reported
\* invalid, whether it released its engine, and the length of every table
\* before it.
Ended(op, table_name, given, error, dropped, invalid, disposed) ==
    [op |-> op, table |-> table_name, given |-> given, error |-> error,
     dropped |-> dropped, invalid |-> invalid, disposed |-> disposed,
     before |-> Before, acquired |-> TRUE]

\* The record of an operation that raised before it created its engine.
Aborted(op, table_name, given, error) ==
    [Ended(op, table_name, given, error, 0, {}, FALSE) EXCEPT !.acquired = FALSE]

\* The database holds at most MaxRows rows.
Fits ==
    Len(clients') + Len(dup_name_clients') + Len(estimates') + Len(invoices')
        <= MaxRows

\* A read of clients that returns no row.
no_client_names == {}

client_names == column(clients, "full_name")

\* df.to_sql(table_name, engine, if_exists='replace'): the table is dropped and
\* written anew, which is not what the scripts ask for.
replace_by(table_name, df) ==
    /\ estimates' = IF table_name = "estimates" THEN df ELSE estimates
    /\ invoices' = IF table_name = "invoices" THEN df ELSE invoices

\* df.to_sql(table_name, engine, if_exists='append') for estimates / invoices
append_to(table_name, df) ==
    /\ estimates' = IF table_name = "estimates" THEN estimates \o df ELSE estimates
    /\ invoices' = IF table_name = "invoices" THEN invoices \o df ELSE invoices

----------------------------------------------------------------------------
(* scripts/ingest.py: ingest_clients_1 *)

clients_1_mappings ==
    ("Name" :> "full_name") @@ ("Email" :> "email_address")
    @@ ("Mobile" :> "phone_mobile") @@ ("OtherPhone" :> "phone_other")
    @@ ("Address" :> "address") @@ ("Address2" :> "address_2")
    @@ ("City" :> "city") @@ ("State" :> "state_province")
    @@ ("Zip" :> "zip_postal_code") @@ ("Notes" :> "private_notes")
    @@ ("JoistID" :> "joist_client_id")

\* str.split(' ')
RECURSIVE split(_)
split(s) ==
    IF \A i \in 1..Len(s) : s[i] # " " THEN <<s>>
    ELSE LET k == CHOOSE i \in 1..Len(s) :
                      s[i] = " " /\ \A j \in 1..(i - 1) : s[j] # " "
         IN  <<SubSeq(s, 1, k - 1)>> \o split(SubSeq(s, k + 1, Len(s)))

\* .str[:20]
first20(v) == IF IsStr(v) /\ Len(v) > 20 THEN SubSeq(v, 1, 20) ELSE v

part(v, k) == IF IsStr(v) /\ Len(split(v)) >= k THEN split(v)[k] ELSE NaN

\* Lines 101-105: the Name column loses & . / \, and first_name and last_name
\* are cut from it.
with_name_parts(df) ==
    [i \in DOMAIN df |->
        LET name == IF IsStr(df[i]["Name"])
                    THEN remove_class(df[i]["Name"], {"&", ".", "/", "\\"})
                    ELSE NaN
        IN  ("Name" :> name)
            @@ ("first_name" :> first20(part(name, 1)))
            @@ ("last_name" :> IF part(name, 3) # NaN THEN first20(part(name, 3))
                               ELSE first20(part(name, 2)))
            @@ df[i]]

\* name_splits[2] is a column only when some name has a third part: without
\* one the lookup raises KeyError.
has_third_part(df) ==
    \E i \in DOMAIN df : IsStr(df[i]["Name"]) /\ part(with_name_parts(df)[i]["Name"], 3) # NaN

ingest_clients_1(file) ==
    /\ run = Idle
    /\ IF load_config("ingest_clients_1", config) # ""
       THEN /\ last' = Aborted("ingest_clients_1", "clients", file,
                               load_config("ingest_clients_1", config))
            /\ UNCHANGED <<clients, dup_name_clients, estimates, invoices, run>>
       ELSE IF ~file.exists
       THEN /\ last' = Ended("ingest_clients_1", "clients", file, "", 0, {}, TRUE)
            /\ UNCHANGED <<clients, dup_name_clients, estimates, invoices, run>>
       ELSE IF ~has_third_part(file.rows)
       THEN /\ last' = Ended("ingest_clients_1", "clients", file, "KeyError", 0, {}, FALSE)
            /\ UNCHANGED <<clients, dup_name_clients, estimates, invoices, run>>
       ELSE LET df == rename(with_name_parts(file.rows), clients_1_mappings)
                cleaned == clean_dataframe(df, "clients", {})
            IN  /\ clients' = clients \o cleaned.df
                /\ last' = Ended("ingest_clients_1", "clients", file, "",
                                 cleaned.dropped, {}, TRUE)
                /\ UNCHANGED <<dup_name_clients, estimates, invoices, run>>
    /\ Fits

----------------------------------------------------------------------------
(* scripts/ingest.py: ingest_clients_2 *)

clients_2_mappings ==
    ("Name" :> "full_name") @@ ("Email Address" :> "email_address")
    @@ ("Phone (mobile)" :> "phone_mobile") @@ ("Phone (other)" :> "phone_other")
    @@ ("Address" :> "address") @@ ("Address 2" :> "address_2")
    @@ ("City" :> "city") @@ ("State / Province" :> "state_province")
    @@ ("Zip / Postal Code" :> "zip_postal_code")
    @@ ("Private Notes" :> "private_notes")
    @@ ("**(Do not change this) Joist Client ID" :> "joist_client_id")

\* The rows are written as read, with the ingested_time date_str gives (the
\* day of the run, as __main__ passes it): both calls of clean_dataframe are
\* commented out in the source.
ingest_clients_2(file) ==
    /\ run = Idle
    /\ IF load_config("ingest_clients_2", config) # ""
       THEN /\ last' = Aborted("ingest_clients_2", "clients", file,
                               load_config("ingest_clients_2", config))
            /\ UNCHANGED <<clients, dup_name_clients, estimates, invoices, run>>
       ELSE IF ~file.exists
       THEN /\ last' = Ended("ingest_clients_2", "clients", file, "", 0, {}, TRUE)
            /\ UNCHANGED <<clients, dup_name_clients, estimates, invoices, run>>
       ELSE LET df_unique == assign(rename(drop_duplicates_first(file.rows, "Name"),
                                           clients_2_mappings),
                                    "ingested_time", now)
                df_dup == assign(rename(duplicated_all(file.rows, "Name"),
                                        clients_2_mappings),
                                 "ingested_time", now)
            IN  /\ clients' = clients \o df_unique
                /\ dup_name_clients' = dup_name_clients \o df_dup
                /\ last' = Ended("ingest_clients_2", "clients", file, "", 0, {}, TRUE)
                /\ UNCHANGED <<estimates, invoices, run>>
    /\ Fits

----------------------------------------------------------------------------
(* scripts/ingest_data.py: ingest_estimate_invoice *)

estimate_invoice_mappings ==
    [estimates |->
        ("Estimate #" :> "estimate_number") @@ ("Client Name" :> "full_name")
        @@ ("Subtotal" :> "subtotal") @@ ("Tax" :> "tax") @@ ("Total" :> "total")
        @@ ("Date Issued" :> "date_issued") @@ ("Date Created" :> "date_created"),
     invoices |->
        ("Invoice #" :> "invoice_number") @@ ("Client Name" :> "full_name")
        @@ ("Subtotal" :> "subtotal") @@ ("Total" :> "total") @@ ("Tax" :> "tax")
        @@ ("Date Issued" :> "date_issued") @@ ("Date Created" :> "date_created")
        @@ ("Payment Received Less Refunds" :> "payment_received_less_refunds")]

\* required_columns of lines 59-63.
required_of(table_name) ==
    {number_column(table_name), "full_name", "subtotal", "tax", "total",
     "date_issued", "date_created"}
    \cup (IF table_name = "invoices" THEN {"payment_received_less_refunds"} ELSE {})

\* Lines 64-67: a required column the frame lacks is added, filled with None.
with_required(df, table_name) ==
    [i \in DOMAIN df |->
        [c \in DOMAIN df[i] \cup required_of(table_name) |-> cell(df[i], c)]]

\* Whether the Client Name column of a frame read by pd.read_csv (as
\* all_ingestor.py reads it, with no dtype given) has dtype object: a column
\* with no value at all is read as float64.
object_names(df) == \E i \in DOMAIN df : IsStr(df[i]["Client Name"])

\* ingest_estimate_invoice(df, table_name, ...). The .str accessor of
\* clean_df_cols raises AttributeError on a column that is not of dtype object.
\* Line 70 reads .iloc[0] of the frame before the try: on an empty frame that
\* raises IndexError with the engine open.
ingest_estimate_invoice(df, table_name) ==
    /\ run = Idle
    /\ IF load_config("ingest_estimate_invoice", config) # ""
       THEN /\ last' = Aborted("ingest_estimate_invoice", table_name, df,
                               load_config("ingest_estimate_invoice", config))
            /\ UNCHANGED <<clients, dup_name_clients, estimates, invoices, run>>
       ELSE IF df = <<>>
       THEN /\ last' = Ended("ingest_estimate_invoice", table_name, df,
                             "IndexError", 0, {}, FALSE)
            /\ UNCHANGED <<clients, dup_name_clients, estimates, invoices, run>>
       ELSE IF ~object_names(df)
       THEN /\ last' = Ended("ingest_estimate_invoice", table_name, df,
                             "AttributeError", 0, {}, TRUE)
            /\ UNCHANGED <<clients, dup_name_clients, estimates, invoices, run>>
       ELSE LET renamed == rename(df, estimate_invoice_mappings[table_name])
                cleaned == clean_df_cols(with_required(renamed, table_name),
                                         {"full_name"})
            IN  /\ append_to(table_name, cleaned)
                /\ last' = Ended("ingest_estimate_invoice", table_name, df,
                                 "", 0, {}, TRUE)
                /\ UNCHANGED <<clients, dup_name_clients, run>>
    /\ Fits

----------------------------------------------------------------------------
(* scripts/ingest_data.py: ingest_clients_with_estimates *)

clients_with_estimates_mappings ==
    ("Name" :> "full_name") @@ ("Email Address" :> "email_address")
    @@ ("Phone (mobile)" :> "phone_mobile") @@ ("Phone (other)" :> "phone_other")
    @@ ("Address" :> "address") @@ ("Address 2" :> "address_2")
    @@ ("City" :> "city") @@ ("State / Province" :> "state_province")
    @@ ("Zip / Postal Code" :> "zip_postal_code")
    @@ ("Private Notes" :> "private_notes")
    @@ ("**(Do not change this) Joist Client ID" :> "joist_client_id")

estimate_column_mappings ==
    ("Estimate #" :> "estimate_number") @@ ("Client Name" :> "full_name")
    @@ ("Subtotal" :> "subtotal") @@ ("Tax" :> "tax") @@ ("Total" :> "total")
    @@ ("Date Issued" :> "date_issued") @@ ("Date Created" :> "date_created")

UpperCase ==
    <<"A", "B", "C", "D", "E", "F", "G", "H", "I", "J", "K", "L", "M",
      "N", "O", "P", "Q", "R", "S", "T", "U", "V", "W", "X", "Y", "Z">>

LowerCase ==
    <<"a", "b", "c", "d", "e", "f", "g", "h", "i", "j", "k", "l", "m",
      "n", "o", "p", "q", "r", "s", "t", "u", "v", "w", "x", "y", "z">>

\* str.lower()
lower(s) ==
    [i \in 1..Len(s) |->
        IF \E k \in DOMAIN UpperCase : UpperCase[k] = s[i]
        THEN LowerCase[CHOOSE k \in DOMAIN UpperCase : UpperCase[k] = s[i]]
        ELSE s[i]]

\* The order of two strings of digits as Python compares strings.
RECURSIVE str_less(_, _)
str_less(a, b) ==
    IF b = <<>> THEN FALSE
    ELSE IF a = <<>> THEN TRUE
    ELSE IF Head(a) # Head(b) THEN num_value(<<Head(a)>>) < num_value(<<Head(b)>>)
    ELSE str_less(Tail(a), Tail(b))

\* estimates.groupby('full_name')['date_created'].min(), then the left merge:
\* the least of the dates the batch gives for the name, missing ones skipped;
\* missing when it gives none.
earliest(est, col, name) ==
    LET given == {est[i][col] : i \in {j \in DOMAIN est : est[j].full_name = name}}
                 \ {NaN}
    IN  IF name = NaN \/ given = {} THEN NaN
        ELSE CHOOSE d \in given : \A e \in given : e = d \/ str_less(d, e)

\* pd.to_datetime(v).date(), .dt.date: the date a string spells, missing for a
\* missing value.
to_date(v) == IF IsStr(v) THEN lstrip_zeros(strip(v)) ELSE NaN

\* Lines 127-129: join_date from the earliest date_created of the batch.
with_join_date(cl, est) ==
    [i \in DOMAIN cl |->
        ("join_date" :> to_date(earliest(est, "date_created", cl[i].full_name)))
        @@ cl[i]]

\* Whether a column of a frame read by pd.read_csv has dtype object: a column
\* with no value in any row is read as float64.
object_column(df, col) == \E i \in DOMAIN df : IsStr(df[i][col])

\* The columns of the export the model keeps, of those clean_df_cols is given.
insert_cols == {"full_name", "address_2"}

\* [name for name in new_names if name.lower() in [n.lower() for n in
\* db_names.union(client_names)]]
mismatched_names(new_names, known) ==
    {name \in new_names : \E n \in known : lower(n) = lower(name)}

\* ingest_clients_with_estimates(estimates, clients, config_path,
\* ingestion_date, logger). pd.read_sql returns None for a NULL full_name, which
\* is not the NaN of a frame read from a file: a missing name of the batch
\* stays in new_names. .lower() of a missing name raises AttributeError, and so
\* does the .str accessor of clean_df_cols on a column that is not of dtype
\* object; both are raised inside the try, whose handler re-raises without
\* engine.dispose().
\* Lines 143-180, from the names read from the database on: the exception
\* raised ("" when none), the rows handed to to_sql, the names logged as
\* inserted (line 175), and the names and the estimate numbers reported.
reconcile(est_df, clients_df, ingestion_date, db_names) ==
    LET est == rename(est_df, estimate_column_mappings)
        cl == with_join_date(rename(clients_df, clients_with_estimates_mappings), est)
        export_names == column(cl, "full_name")
        new_names == column(est, "full_name") \ (db_names \ {NaN})
        known == db_names \cup export_names
        mismatched == mismatched_names(new_names, known)
        orphaned_names == new_names \ export_names
        orphaned == {est[i].estimate_number :
                        i \in {j \in DOMAIN est : est[j].full_name \in orphaned_names}}
        insert_names == new_names \cap export_names
        to_insert == [i \in DOMAIN cl |-> ("ingested_date" :> to_date(ingestion_date)) @@ cl[i]]
        chosen == take(to_insert, {i \in DOMAIN cl : cl[i].full_name \in insert_names}, 1)
    IN  IF new_names # {} /\ NaN \in new_names \cup known
        THEN [error |-> "AttributeError", rows |-> <<>>, inserting |-> {},
              mismatched |-> {}, orphaned |-> {}]
        ELSE IF insert_names # {} /\ \E c \in insert_cols : ~object_column(cl, c)
        THEN [error |-> "AttributeError", rows |-> <<>>, inserting |-> {},
              mismatched |-> mismatched, orphaned |-> orphaned]
        ELSE [error |-> "", rows |-> clean_df_cols(chosen, insert_cols),
              inserting |-> insert_names,
              mismatched |-> mismatched, orphaned |-> orphaned]

ingest_clients_with_estimates(est_df, clients_df, ingestion_date) ==
    /\ run = Idle
    /\ LET given == [estimates |-> est_df, clients |-> clients_df]
           done == reconcile(est_df, clients_df, ingestion_date, client_names)
       IN  IF load_config("ingest_clients_with_estimates", config) # ""
           THEN /\ last' = Aborted("ingest_clients_with_estimates", "clients", given,
                                   load_config("ingest_clients_with_estimates", config))
                           @@ [mismatched |-> {}, orphaned |-> {}]
                /\ UNCHANGED clients
           ELSE /\ clients' = clients \o done.rows
                /\ last' = Ended("ingest_clients_with_estimates", "clients", given,
                                 done.error, 0, {}, done.error = "")
                           @@ [mismatched |-> done.mismatched, orphaned |-> done.orphaned]
    /\ UNCHANGED <<dup_name_clients, estimates, invoices, run>>
    /\ Fits

----------------------------------------------------------------------------
(* scripts/ingest.py: ingest_est_inv, one step per file of its loop *)

est_inv_mappings ==
    [estimates |->
        ("EstimateNo" :> "estimate_number") @@ ("ClientName" :> "full_name")
        @@ ("Subtotal" :> "subtotal") @@ ("Tax" :> "tax") @@ ("Total" :> "total")
        @@ ("IssuedDate" :> "date_issued") @@ ("CreatedDate" :> "date_created"),
     invoices |->
        ("InvoiceNo" :> "invoice_number") @@ ("ClientName" :> "full_name")
        @@ ("Subtotal" :> "subtotal") @@ ("Tax" :> "tax") @@ ("Total" :> "total")
        @@ ("IssuedDate" :> "date_issued") @@ ("CreatedDate" :> "date_created")
        @@ ("Payments" :> "payment_received_less_refunds")]

\* Lines 187-221: the configuration is read, the engine created, the files
\* listed.
ingest_est_inv_start(table_name) ==
    /\ run = Idle
    /\ IF load_config("ingest_est_inv", config) # ""
       THEN /\ last' = Aborted("ingest_est_inv", table_name, <<>>,
                               load_config("ingest_est_inv", config))
            /\ run' = run
       ELSE /\ run' = [op |-> "ingest_est_inv", table |-> table_name]
            /\ last' = NoOp
    /\ UNCHANGED <<clients, dup_name_clients, estimates, invoices>>

\* Lines 222-227, one file: an exception of clean_dataframe leaves the loop
\* and the function, before to_sql and before engine.dispose().
ingest_est_inv_file(df) ==
    /\ run.op = "ingest_est_inv"
    /\ LET renamed == rename(df, est_inv_mappings[run.table])
           cleaned == clean_dataframe(renamed, run.table, client_names)
       IN  IF cleaned.error # ""
           THEN /\ last' = Ended("ingest_est_inv", run.table, df, cleaned.error,
                                 cleaned.dropped, cleaned.invalid, FALSE)
                /\ run' = Idle
                /\ UNCHANGED <<clients, dup_name_clients, estimates, invoices>>
           ELSE /\ append_to(run.table, cleaned.df)
                /\ last' = Ended("ingest_est_inv", run.table, df, "",
                                 cleaned.dropped, {}, FALSE)
                /\ UNCHANGED <<clients, dup_name_clients, run>>
    /\ Fits

\* Line 228: the loop is over, engine.dispose().
ingest_est_inv_end ==
    /\ run.op = "ingest_est_inv"
    /\ run' = Idle
    /\ last' = Ended("ingest_est_inv_end", run.table, <<>>, "", 0, {}, TRUE)
    /\ UNCHANGED <<clients, dup_name_clients, estimates, invoices>>

----------------------------------------------------------------------------
(* scripts/transfrom.py: update_client_join_date *)

\* SELECT MIN(e.date_issued) FROM estimates e WHERE e.full_name = c.full_name:
\* the earliest of the dates, NULLs skipped; NULL when there is none, and for a
\* client with no name.
min_date_issued(name) ==
    LET issued == {to_date(cell(estimates[i], "date_issued")) :
                      i \in {j \in DOMAIN estimates : cell(estimates[j], "full_name") = name}}
                  \ {NaN}
    IN  IF name = NaN \/ issued = {} THEN NaN
        ELSE CHOOSE d \in issued : \A e \in issued : num_value(d) <= num_value(e)

\* An UPDATE with no WHERE clause.
every_row(row, ingestion_date) == TRUE

\* WHERE c.ingested_time::date = :ingestion_date; a NULL ingested_time
\* satisfies no comparison.
ingested_on(row, ingestion_date) ==
    /\ cell(row, "ingested_time") # NaN
    /\ to_date(cell(row, "ingested_time")) = to_date(ingestion_date)

\* update_client_join_date(config_path, ingestion_date): the UPDATE of lines
\* 68-81. A configuration that cannot be read raises inside the try, and the
\* finally clause then fails on the engine that was never created.
update_client_join_date(ingestion_date) ==
    /\ run = Idle
    /\ IF load_config("update_client_join_date", config) # ""
       THEN /\ last' = Aborted("update_client_join_date", "clients", ingestion_date,
                               "UnboundLocalError")
            /\ UNCHANGED clients
       ELSE /\ clients' =
                 [k \in DOMAIN clients |->
                     IF ingested_on(clients[k], ingestion_date)
                     THEN ("join_date" :> min_date_issued(cell(clients[k], "full_name")))
                          @@ clients[k]
                     ELSE clients[k]]
            /\ last' = Ended("update_client_join_date", "clients", ingestion_date,
                             "", 0, {}, TRUE)
    /\ UNCHANGED <<dup_name_clients, estimates, invoices, run>>

----------------------------------------------------------------------------
(* scripts/all_ingestor.py: the script, one step per call it makes *)

\* Lines 39-78: the configuration is read, the loggers set up, the estimates
\* and the clients read (and the clients deduplicated). The calls of
\* ingest_clients_with_estimates and of ingest_estimate_invoice for the
\* estimates are commented out: the script goes on to the invoices.
all_ingestor_start ==
    /\ main.pc # "invoices"
    /\ IF load_config("all_ingestor", config) # ""
       THEN /\ main' = [pc |-> "done", calls |-> <<>>, wrote |-> 0]
            /\ last' = Aborted("all_ingestor", "", <<>>, load_config("all_ingestor", config))
       ELSE /\ main' = [pc |-> "invoices", calls |-> <<>>, wrote |-> 0]
            /\ last' = NoOp
    /\ UNCHANGED <<clients, dup_name_clients, estimates, invoices, run>>

\* Lines 81-91: the invoices are read and ingested, and the script ends.
all_ingestor_invoices(invoices_df) ==
    /\ main.pc = "invoices"
    /\ ingest_estimate_invoice(invoices_df, "invoices")
    /\ main' = [pc |-> "done",
                calls |-> Append(main.calls, "ingest_estimate_invoice"),
                wrote |-> Len(invoices') - Len(invoices)]

----------------------------------------------------------------------------
(* The files and frames the runs are given *)

MaxBatch == 2

MaxDocBatch == 2

RECURSIVE SeqsUpTo(_, _)
SeqsUpTo(S, n) ==
    IF n = 0 THEN {<<>>}
    ELSE LET shorter == SeqsUpTo(S, n - 1)
         IN  shorter \cup {Append(q, x) : q \in shorter, x \in S}

NameA == <<"a">>

NameB == <<"b">>

NameABC == <<"a", " ", "b", " ", "c">>

Blank == <<" ">>

\* (Name, Joist Client ID) of the rows of a client export: of the tab-separated
\* clients.csv of ingest_clients_2, and of the clients_<date>.csv of
\* ingest_clients_1.
ClientCells2 == {<<NameA, <<"5">>>>, <<NameA, <<"9">>>>, <<NameB, <<"5">>>>}

ClientCells1 == {<<NameABC, <<"5">>>>, <<NaN, <<"9">>>>}

IdHeader2 == "**(Do not change this) Joist Client ID"

NoFile == [exists |-> FALSE, rows |-> <<>>]

FileOf(cells, id_header) ==
    [exists |-> TRUE,
     rows |-> [i \in DOMAIN cells |->
                  ("Name" :> cells[i][1]) @@ (id_header :> cells[i][2])]]

ClientFiles1 ==
    {NoFile} \cup {FileOf(q, "JoistID") : q \in SeqsUpTo(ClientCells1, MaxBatch)}

ClientFiles2 ==
    {NoFile} \cup {FileOf(q, "**(Do not change this) Joist Client ID") :
                      q \in SeqsUpTo(ClientCells2, MaxBatch)}

DocTables == {"estimates", "invoices"}

DocNames == {NaN, Blank, NameA, NameB}

\* The frames all_ingestor.py reads for ingest_estimate_invoice.
ExportFrames(table_name) ==
    {[i \in DOMAIN q |->
        ("Client Name" :> q[i])
        @@ ((IF table_name = "estimates" THEN "Estimate #" ELSE "Invoice #") :> <<"7">>)] :
        q \in SeqsUpTo(DocNames, MaxDocBatch)}

\* The files of data/<table_name>/*.csv, read with dtype=str.
DocFiles(table_name) ==
    {[i \in DOMAIN q |->
        ("ClientName" :> q[i])
        @@ ((IF table_name = "estimates" THEN "EstimateNo" ELSE "InvoiceNo") :> <<"7">>)] :
        q \in SeqsUpTo(DocNames, MaxDocBatch)}

Init == InitDb /\ call = NoCall

Next ==
    \/ \E file \in ClientFiles1 : ingest_clients_1(file) /\ UNCHANGED env
    \/ \E file \in ClientFiles2 : ingest_clients_2(file) /\ UNCHANGED env
    \/ \E t \in DocTables : \E df \in ExportFrames(t) :
          ingest_estimate_invoice(df, t) /\ UNCHANGED env
    \/ \E t \in DocTables : ingest_est_inv_start(t) /\ UNCHANGED env
    \/ \E df \in DocFiles(run.table) : ingest_est_inv_file(df) /\ UNCHANGED env
    \/ ingest_est_inv_end /\ UNCHANGED env

Spec == Init /\ [][Next]_vars

NextClients ==
    \/ \E file \in ClientFiles1 : ingest_clients_1(file) /\ UNCHANGED env
    \/ \E file \in ClientFiles2 : ingest_clients_2(file) /\ UNCHANGED env

SpecClients == Init /\ [][NextClients]_vars

\* The document files of ingest.py against the clients ingest_clients_2 wrote.
OneClientFiles == {FileOf(<<<<n, <<"5">>>>>>, IdHeader2) : n \in {NameA, NameB}}

NextEstInv ==
    \/ \E file \in OneClientFiles : ingest_clients_2(file) /\ UNCHANGED env
    \/ \E t \in DocTables : ingest_est_inv_start(t) /\ UNCHANGED env
    \/ \E df \in DocFiles(run.table) : ingest_est_inv_file(df) /\ UNCHANGED env
    \/ ingest_est_inv_end /\ UNCHANGED env

SpecEstInv == Init /\ [][NextEstInv]_vars

NextClients2 == \E file \in ClientFiles2 : ingest_clients_2(file) /\ UNCHANGED env

SpecClients2 == Init /\ [][NextClients2]_vars

----------------------------------------------------------------------------
(* The whole system: every entry point, on one-row files, under every      *)
(* configuration file.                                                     *)

SysClientFiles1 == {NoFile, FileOf(<<<<NameABC, <<"5">>>>>>, "JoistID")}

SysFrames(table_name) ==
    {<<>>}
    \cup {<<("Client Name" :> n) @@ ("Date Issued" :> <<"5">>)
            @@ ((IF table_name = "estimates" THEN "Estimate #" ELSE "Invoice #") :> <<"7">>)>> :
            n \in {NameA}}

SysDocFiles(table_name) ==
    {<<("ClientName" :> n)
       @@ ((IF table_name = "estimates" THEN "EstimateNo" ELSE "InvoiceNo") :> <<"7">>)>> :
        n \in {NameA, NameB}}

SysBatches ==
    {<<("Client Name" :> NameA) @@ ("Estimate #" :> <<"1">>)
       @@ ("Date Created" :> <<"3">>) @@ ("Date Issued" :> <<"5">>)>>}

SysExports == {<<("Name" :> NameA) @@ ("Address 2" :> <<"x">>)>>}

SysDates == {<<"7">>, <<"8">>}

IngestionDates == {<<"7">>}

InitSystem ==
    /\ clients = <<>> /\ dup_name_clients = <<>> /\ estimates = <<>> /\ invoices = <<>>
    /\ run = Idle /\ last = NoOp /\ main = MainIdle /\ call = NoCall
    /\ config \in Configs

NextSystem ==
    \/ \E file \in SysClientFiles1 : ingest_clients_1(file) /\ UNCHANGED env
    \/ \E file \in OneClientFiles : ingest_clients_2(file) /\ UNCHANGED env
    \/ \E est_df \in SysBatches, clients_df \in SysExports, d \in IngestionDates :
          ingest_clients_with_estimates(est_df, clients_df, d) /\ UNCHANGED env
    \/ \E t \in DocTables : \E df \in SysFrames(t) :
          ingest_estimate_invoice(df, t) /\ UNCHANGED env
    \/ \E t \in DocTables : ingest_est_inv_start(t) /\ UNCHANGED env
    \/ \E df \in SysDocFiles(run.table) : ingest_est_inv_file(df) /\ UNCHANGED env
    \/ ingest_est_inv_end /\ UNCHANGED env
    \/ \E d \in SysDates : update_client_join_date(d) /\ UNCHANGED env
    \/ all_ingestor_start /\ UNCHANGED <<call, config>>
    \/ \E df \in SysFrames("invoices") :
          all_ingestor_invoices(df) /\ UNCHANGED <<call, config>>

SpecSystem == InitSystem /\ [][NextSystem]_vars

----------------------------------------------------------------------------
(* What the last operation wrote *)

Written(tbl, table_name) == SubSeq(tbl, last.before[table_name] + 1, Len(tbl))

WrittenDocs ==
    IF last.table = "estimates" THEN Written(estimates, "estimates")
    ELSE Written(invoices, "invoices")

DocOps == {"ingest_estimate_invoice", "ingest_est_inv"}

\* The names of the frame a document run was given, as the export spells them.
GivenNames ==
    [i \in DOMAIN last.given |->
        IF last.op = "ingest_estimate_invoice"
        THEN last.given[i]["Client Name"] ELSE last.given[i]["ClientName"]]

\* The full_name values of clients before the last operation.
NamesBefore == {clients[k].full_name : k \in 1..last.before.clients}

NoName(v) == ~IsStr(v) \/ strip(v) = <<>>

----------------------------------------------------------------------------
(* Estimates and invoices against the clients table *)

\* C1: once an estimates / invoices batch has been persisted, every full_name
\* of the rows persisted is the full_name of a row of clients.
C1_NoOrphanPersisted ==
    last.op \in DocOps /\ last.error = "" =>
        \A i \in DOMAIN WrittenDocs :
            ~NoName(WrittenDocs[i].full_name) =>
                WrittenDocs[i].full_name \in client_names

\* C2: a batch that references a name absent from clients leaves a minimal
\* client row of that name (every other column but ingested_time and source
\* missing), the referencing row persisted and no row dropped.
C2_MissingNameBackfilled ==
    last.op \in DocOps =>
        \A i \in DOMAIN GivenNames :
            ~NoName(GivenNames[i]) /\ GivenNames[i] \notin NamesBefore =>
                /\ \E k \in DOMAIN clients :
                      /\ clients[k].full_name = GivenNames[i]
                      /\ \A c \in DOMAIN clients[k] \ {"full_name", "ingested_time", "source"} :
                            clients[k][c] = NaN
                /\ \E k \in DOMAIN WrittenDocs :
                      WrittenDocs[k].full_name = GivenNames[i]
                /\ last.dropped = 0

\* C3: a row whose full_name is missing, empty or whitespace-only is not among
\* the rows persisted, and is reported as dropped.
C3_NullNameDropped ==
    last.op \in DocOps =>
        /\ \A k \in DOMAIN WrittenDocs : ~NoName(WrittenDocs[k].full_name)
        /\ last.error = "" =>
             last.dropped >= Cardinality({i \in DOMAIN GivenNames : NoName(GivenNames[i])})

----------------------------------------------------------------------------
(* The client exports *)

\* C4: clients holds at most one row of each full_name.
C4_OneRowPerName ==
    \A i, j \in DOMAIN clients :
        i # j => clients[i].full_name # clients[j].full_name

Clients2Ran == last.op = "ingest_clients_2" /\ last.given.exists

\* The indices of the rows of the export of the last ingest_clients_2 run that
\* share their Name with another row of it.
Colliding ==
    {i \in DOMAIN last.given.rows :
        \E j \in DOMAIN last.given.rows :
            j # i /\ last.given.rows[j]["Name"] = last.given.rows[i]["Name"]}

\* How many rows of a sequence of table rows carry this name and this id.
Copies(rows, name, id) ==
    Cardinality({k \in DOMAIN rows :
                    rows[k].full_name = name /\ rows[k].joist_client_id = id})

\* How many of these rows of the export carry this name and this id.
CopiesGiven(idx, name, id) ==
    Cardinality({i \in idx : last.given.rows[i]["Name"] = name
                             /\ last.given.rows[i][IdHeader2] = id})

\* C5: of the rows of an export that share a Name, the one written to clients
\* is the one with the highest Joist Client ID, whatever the order of the
\* rows, and the others are written to dup_name_clients.
C5_HighestIdKept ==
    Clients2Ran =>
        \A i \in Colliding :
            LET name == last.given.rows[i]["Name"]
                group == {j \in Colliding : last.given.rows[j]["Name"] = name}
                top == CHOOSE j \in group : \A k \in group :
                          num_value(last.given.rows[k][IdHeader2])
                              <= num_value(last.given.rows[j][IdHeader2])
                kept == {k \in DOMAIN Written(clients, "clients") :
                            Written(clients, "clients")[k].full_name = name}
            IN  /\ \A k \in kept :
                      Written(clients, "clients")[k].joist_client_id
                          = last.given.rows[top][IdHeader2]
                /\ kept # {}
                /\ i # top =>
                      Copies(Written(dup_name_clients, "dup_name_clients"), name,
                             last.given.rows[i][IdHeader2]) > 0

\* C6: dup_name_clients receives every row of the export that shares its Name
\* with another row of it, as many times as the export holds it, and no row
\* whose Name is the Name of no other row.
C6_DupReceivesColliding ==
    Clients2Ran =>
        /\ Len(Written(dup_name_clients, "dup_name_clients")) = Cardinality(Colliding)
        /\ \A i \in DOMAIN last.given.rows :
              LET name == last.given.rows[i]["Name"]
                  id == last.given.rows[i][IdHeader2]
              IN  Copies(Written(dup_name_clients, "dup_name_clients"), name, id)
                     = CopiesGiven(Colliding, name, id)

\* An export with two rows of one Name and different ids has been ingested and
\* both rows are in dup_name_clients.
C6_Witness ==
    /\ Clients2Ran
    /\ Cardinality(Colliding) >= 2
    /\ \E i, j \in Colliding :
          /\ last.given.rows[i][IdHeader2] # last.given.rows[j][IdHeader2]
          /\ Copies(Written(dup_name_clients, "dup_name_clients"),
                    last.given.rows[i]["Name"], last.given.rows[i][IdHeader2]) = 1
          /\ Copies(Written(dup_name_clients, "dup_name_clients"),
                    last.given.rows[j]["Name"], last.given.rows[j][IdHeader2]) = 1

\* C7 as stated: no row that shares its full_name with another row of the
\* export reaches clients, and no row of the export is written to both tables.
C7_AsStated ==
    Clients2Ran =>
        /\ \A i \in Colliding :
              \A k \in DOMAIN Written(clients, "clients") :
                  Written(clients, "clients")[k].full_name # last.given.rows[i]["Name"]
        /\ \A i \in DOMAIN last.given.rows :
              LET name == last.given.rows[i]["Name"]
                  id == last.given.rows[i][IdHeader2]
              IN  ~(/\ Copies(Written(clients, "clients"), name, id) > 0
                    /\ Copies(Written(dup_name_clients, "dup_name_clients"), name, id) > 0)

\* C7, amended: of the rows of the export that share one full_name, exactly
\* one is written to clients (and to dup_name_clients as well); every other
\* row of the group is written to dup_name_clients alone. A row whose
\* full_name no other row shares is written to clients alone.
C7_OneOfGroupInClients ==
    Clients2Ran =>
        \A i \in DOMAIN last.given.rows :
            LET name == last.given.rows[i]["Name"]
                kept == {k \in DOMAIN Written(clients, "clients") :
                            Written(clients, "clients")[k].full_name = name}
                held == {k \in DOMAIN Written(dup_name_clients, "dup_name_clients") :
                            Written(dup_name_clients, "dup_name_clients")[k].full_name = name}
                group == {j \in DOMAIN last.given.rows : last.given.rows[j]["Name"] = name}
            IN  /\ Cardinality(kept) = 1
                /\ \E j \in group : \A k \in kept :
                      Written(clients, "clients")[k].joist_client_id
                          = last.given.rows[j][IdHeader2]
                /\ i \in Colliding => Cardinality(held) = Cardinality(group)
                /\ i \notin Colliding => held = {}

\* An export with two rows of one Name has been ingested: one of them is in
\* clients and both are in dup_name_clients.
C7_Witness ==
    /\ Clients2Ran
    /\ Colliding # {}
    /\ \E i \in Colliding :
          /\ Cardinality({k \in DOMAIN Written(clients, "clients") :
                Written(clients, "clients")[k].full_name = last.given.rows[i]["Name"]}) = 1
          /\ Cardinality({k \in DOMAIN Written(dup_name_clients, "dup_name_clients") :
                Written(dup_name_clients, "dup_name_clients")[k].full_name
                    = last.given.rows[i]["Name"]}) = 2

----------------------------------------------------------------------------
(* The reconciliation of the clients with an estimates batch:              *)
(* ingest_clients_with_estimates, run after run on one database.           *)

MaxReconcile == 2

NameUpperA == <<"A">>

NameB_ == <<"b", "_">>

ReconcileNames == {NaN, Blank, NameA, NameUpperA, NameB, NameB_}

\* The estimates export: row i carries Estimate # i; the second row is dated
\* 12, which sorts before the 3 of the first as a string.
BatchDates == <<<<"3">>, <<"1", "2">>, <<"3">>, <<"3">>>>

ReconcileBatches ==
    {[i \in DOMAIN q |->
        ("Client Name" :> q[i]) @@ ("Estimate #" :> <<ToString(i)>>)
        @@ ("Date Created" :> BatchDates[i]) @@ ("Date Issued" :> <<"5">>)] :
        q \in SeqsUpTo(ReconcileNames, MaxReconcile)}

\* (Name, Address 2) of the rows of the client export.
ReconcileCells ==
    {<<NameA, <<"x">>>>, <<NameA, NaN>>, <<NameUpperA, <<"x">>>>,
     <<NameB_, <<"x">>>>, <<NaN, <<"x">>>>}

ReconcileExports ==
    {[i \in DOMAIN q |-> ("Name" :> q[i][1]) @@ ("Address 2" :> q[i][2])] :
        q \in SeqsUpTo(ReconcileCells, MaxReconcile)}

\* The clients table as an earlier ingest_clients_2 run left it: empty, or
\* with one client.
ReconcileTables ==
    {<<>>} \cup {assign(rename(FileOf(<<<<n, <<"5">>>>>>, IdHeader2).rows,
                               clients_2_mappings), "ingested_time", now) :
                    n \in {NameA, NameUpperA}}

InitReconcile ==
    /\ dup_name_clients = <<>> /\ estimates = <<>> /\ invoices = <<>>
    /\ run = Idle /\ last = NoOp /\ config = FullConfig /\ main = MainIdle
    /\ clients \in ReconcileTables
    /\ \E est_df \in ReconcileBatches, clients_df \in ReconcileExports,
          ingestion_date \in IngestionDates :
         call = [fn |-> "ingest_clients_with_estimates", stage |-> 0,
                 estimates |-> est_df, clients |-> clients_df,
                 ingestion_date |-> ingestion_date]

\* The run, and the same run once more on the same files.
ReconcileOnce ==
    /\ call.fn = "ingest_clients_with_estimates" /\ call.stage = 0
    /\ ingest_clients_with_estimates(call.estimates, call.clients, call.ingestion_date)
    /\ call' = [call EXCEPT !.stage = 1]
    /\ UNCHANGED <<config, main>>

ReconcileAgain ==
    /\ call.fn = "ingest_clients_with_estimates" /\ call.stage = 1
    /\ ingest_clients_with_estimates(call.estimates, call.clients, call.ingestion_date)
    /\ call' = [call EXCEPT !.stage = 2]
    /\ UNCHANGED <<config, main>>

NextReconcile == ReconcileOnce \/ ReconcileAgain

SpecReconcile == InitReconcile /\ [][NextReconcile]_vars

ReconcileRan == last.op = "ingest_clients_with_estimates"

\* The names of the estimates batch and of the export of the last run, as the
\* files spell them, the missing and blank ones left out.
BatchNames ==
    {last.given.estimates[i]["Client Name"] : i \in DOMAIN last.given.estimates}

ExportNames ==
    {last.given.clients[i]["Name"] : i \in DOMAIN last.given.clients}

Proper(names) == {n \in names : ~NoName(n)}

InsertedNames ==
    {Written(clients, "clients")[k].full_name : k \in DOMAIN Written(clients, "clients")}

\* C11: the full_names of the rows a run inserts into clients are exactly the
\* names of the batch that are in the export and not in clients before the run.
C11_InsertedExactly ==
    ReconcileRan =>
        InsertedNames = (Proper(BatchNames) \cap Proper(ExportNames)) \ NamesBefore

\* C12: every estimate of the batch whose name is neither in clients nor in
\* the export is reported orphaned, and clients gains no row of that name.
C12_OrphansReported ==
    ReconcileRan =>
        \A i \in DOMAIN last.given.estimates :
            LET name == last.given.estimates[i]["Client Name"]
            IN  ~NoName(name) /\ name \notin NamesBefore \cup ExportNames =>
                    /\ last.given.estimates[i]["Estimate #"] \in last.orphaned
                    /\ name \notin InsertedNames

\* C13: a new name of the batch is flagged as a potential case mismatch exactly
\* when a name of clients or of the export equals it but for the casing, and
\* differs from it.
C13_CaseMismatchFlagged ==
    ReconcileRan =>
        \A name \in Proper(BatchNames) \ NamesBefore :
            name \in last.mismatched
                <=> \E n \in Proper(NamesBefore \cup ExportNames) :
                        n # name /\ lower(n) = lower(name)

\* C14: a batch with a missing, empty or whitespace-only name is reconciled to
\* the end, and no client is inserted and no estimate reported for that name.
C14_NullNamesExcluded ==
    ReconcileRan /\ (\E n \in BatchNames : NoName(n)) =>
        /\ last.error = ""
        /\ \A n \in InsertedNames : ~NoName(n)
        /\ \A i \in DOMAIN last.given.estimates :
              NoName(last.given.estimates[i]["Client Name"]) =>
                  last.given.estimates[i]["Estimate #"] \notin last.orphaned

----------------------------------------------------------------------------
(* Errors and the engine *)

FileRan == last.op = "ingest_est_inv" /\ last.acquired

\* The names a file of ingest_est_inv references (cleaned and cut as they would
\* be stored, rows with no name left out) that clients does not hold.
Offending ==
    {n \in {capped_value(last.table, "full_name", GivenNames[i]) : i \in DOMAIN GivenNames} :
        n # NaN /\ n \notin client_names}

C16_RunContinues ==
    FileRan /\ last.error # "" => run.op = "ingest_est_inv"

\* C17: a run that created a database engine and has ended, with or without an
\* error, has disposed of it.
C17_EngineReleased ==
    last.op # "none" /\ last.acquired /\ run = Idle => last.disposed

EntryPoints ==
    {"ingest_clients_1", "ingest_clients_2", "ingest_est_inv",
     "ingest_estimate_invoice", "ingest_clients_with_estimates"}

\* The configuration file is missing, or lacks a section or key the entry
\* point reads.
Unusable(entry) ==
    ~config.exists \/ ~(config_sections(entry) \subseteq config.sections)

\* C18: an ingestion entry point given a configuration that is missing or lacks
\* a key it reads ends in an error with no engine created, no run of files
\* started and every table as long as before.
C18_ConfigErrorAborts ==
    last.op \in EntryPoints \cup {"ingest_est_inv_end"} /\ Unusable(last.op) =>
        /\ last.error # ""
        /\ ~last.acquired
        /\ run = Idle
        /\ Before = last.before

\* A database that already holds an estimate, and a configuration without the
\* PATHS section: ingest_est_inv has failed on it before creating an engine.
C18_Witness ==
    /\ last.op = "ingest_est_inv"
    /\ config.exists /\ "PATHS" \notin config.sections
    /\ last.error = "KeyError"
    /\ ~last.acquired
    /\ estimates # <<>>

SameButJoinDate(before, after) ==
    /\ DOMAIN after \ {"join_date"} = DOMAIN before \ {"join_date"}
    /\ \A c \in DOMAIN before \ {"join_date"} : after[c] = before[c]

\* C19: no step removes a row of clients, estimates or invoices or changes a
\* row of estimates or invoices; a row of clients changes in join_date alone.
C19_AppendOnly ==
    [][/\ Len(clients') >= Len(clients)
       /\ \A k \in DOMAIN clients : SameButJoinDate(clients[k], clients'[k])
       /\ Len(estimates') >= Len(estimates)
       /\ SubSeq(estimates', 1, Len(estimates)) = estimates
       /\ Len(invoices') >= Len(invoices)
       /\ SubSeq(invoices', 1, Len(invoices)) = invoices]_vars

\* update_client_join_date has given a client that was there before it the
\* date of an estimate, in a database that holds estimates and invoices.
C19_Witness ==
    /\ last.op = "update_client_join_date" /\ last.error = ""
    /\ \E k \in DOMAIN clients : cell(clients[k], "join_date") = <<"5">>
    /\ estimates # <<>>
    /\ invoices # <<>>

\* C20: a run of all_ingestor.py that persisted a batch called
\* ingest_clients_with_estimates before the call that persisted it.
C20_ClientStepFirst ==
    main.pc = "done" /\ main.wrote > 0 =>
        \E i, j \in DOMAIN main.calls :
            /\ i < j
            /\ main.calls[i] = "ingest_clients_with_estimates"
            /\ main.calls[j] = "ingest_estimate_invoice"

----------------------------------------------------------------------------
(* The join dates *)

UpdateRan == last.op = "update_client_join_date" /\ last.error = ""

\* The day a client row was ingested, whichever of the two columns the
\* ingestion path wrote it in.
IngestedOnDay(row, d) ==
    \/ to_date(cell(row, "ingested_time")) = to_date(d)
    \/ to_date(cell(row, "ingested_date")) = to_date(d)

\* The earliest of the dates the persisted estimates of a name carry in a
\* column, NULL when they carry none.
EarliestPersisted(name, col) ==
    LET dates == {to_date(cell(estimates[i], col)) :
                     i \in {j \in DOMAIN estimates : cell(estimates[j], "full_name") = name}}
                 \ {NaN}
    IN  IF dates = {} THEN NaN
        ELSE CHOOSE d \in dates : \A e \in dates : num_value(d) <= num_value(e)

\* C21: after update_client_join_date(D), every client ingested on D, by
\* whichever path, has the earliest date of the persisted estimates of its
\* name as join_date, NULL when there is none.
C21_JoinDateBackfilled ==
    UpdateRan =>
        \A k \in DOMAIN clients :
            IngestedOnDay(clients[k], last.given) =>
                cell(clients[k], "join_date")
                    \in {EarliestPersisted(cell(clients[k], "full_name"), "date_issued"),
                         EarliestPersisted(cell(clients[k], "full_name"), "date_created")}

IngestedTimeOn(row, d) ==
    IsStr(cell(row, "ingested_time")) /\ to_date(cell(row, "ingested_time")) = to_date(d)

\* C28: a step of update_client_join_date(D) changes nothing but join_date, and
\* that of client rows whose ingested_time falls on D alone: a row ingested on
\* another day, or with no ingested_time, is left as it was, and so is every
\* other table.
C28_OnlyJoinDateOfDay ==
    [][last'.op = "update_client_join_date" =>
          /\ Len(clients') = Len(clients)
          /\ \A k \in DOMAIN clients :
                /\ SameButJoinDate(clients[k], clients'[k])
                /\ ~IngestedTimeOn(clients[k], last'.given) => clients'[k] = clients[k]
          /\ UNCHANGED <<dup_name_clients, estimates, invoices>>]_vars

\* update_client_join_date(7) has set the join_date of a client ingested on
\* day 7 from its estimate, and left the join_date of a client with no
\* ingested_time as it was.
C28_Witness ==
    /\ UpdateRan /\ last.given = <<"7">>
    /\ \E k \in DOMAIN clients :
          /\ IngestedTimeOn(clients[k], <<"7">>)
          /\ cell(clients[k], "join_date") = <<"5">>
    /\ \E k \in DOMAIN clients :
          /\ cell(clients[k], "ingested_time") = NaN
          /\ cell(clients[k], "join_date") = <<"3">>

----------------------------------------------------------------------------
(* The documented order of all_ingestor.py: the clients of an estimates    *)
(* export reconciled, then the export ingested.                            *)

\* The clients table as an earlier ingest_clients_2 run left it, the names as
\* the export spelled them.
PipelineTables ==
    {<<>>} \cup {assign(rename(FileOf(<<<<n, <<"5">>>>>>, IdHeader2).rows,
                               clients_2_mappings), "ingested_time", now) :
                    n \in {NameA, NameUpperA, NameB_}}

InitPipeline ==
    /\ dup_name_clients = <<>> /\ estimates = <<>> /\ invoices = <<>>
    /\ run = Idle /\ last = NoOp /\ config = FullConfig /\ main = MainIdle
    /\ clients \in PipelineTables
    /\ \E est_df \in ReconcileBatches, clients_df \in ReconcileExports,
          ingestion_date \in IngestionDates :
         call = [fn |-> "all_ingestor", stage |-> 0,
                 estimates |-> est_df, clients |-> clients_df,
                 ingestion_date |-> ingestion_date]

\* all_ingestor.py line 70, as documented.
PipelineClients ==
    /\ call.fn = "all_ingestor" /\ call.stage = 0
    /\ ingest_clients_with_estimates(call.estimates, call.clients, call.ingestion_date)
    /\ call' = [call EXCEPT !.stage = 1]
    /\ UNCHANGED <<config, main>>

\* all_ingestor.py line 76, as documented: reached when the call before it
\* returned.
PipelineEstimates ==
    /\ call.fn = "all_ingestor" /\ call.stage = 1
    /\ last.error = ""
    /\ ingest_estimate_invoice(call.estimates, "estimates")
    /\ call' = [call EXCEPT !.stage = 2]
    /\ UNCHANGED <<config, main>>

NextPipeline == PipelineClients \/ PipelineEstimates

SpecPipeline == InitPipeline /\ [][NextPipeline]_vars

PipelineDone == call.fn = "all_ingestor" /\ call.stage = 2 /\ last.error = ""

\* The rows of clients ingest_clients_with_estimates inserted: no other path
\* writes ingested_date.
Reconciled == {k \in DOMAIN clients : cell(clients[k], "ingested_date") # NaN}

\* C22: once the estimates batch is persisted, the join_date of a client
\* ingest_clients_with_estimates inserted is the date update_client_join_date
\* would compute for it.
C22_JoinDateAsBackfill ==
    PipelineDone =>
        \A k \in Reconciled :
            cell(clients[k], "join_date") = min_date_issued(cell(clients[k], "full_name"))

\* C29: when every name of the estimates batch is in the clients table or in
\* the export, the full_name of every estimate persisted after the
\* reconciliation is the full_name of a row of clients.
C29_ReferencesResolvable ==
    PipelineDone
    /\ (\A i \in DOMAIN call.estimates :
           call.estimates[i]["Client Name"]
               \in {cell(clients[k], "full_name") : k \in DOMAIN clients \ Reconciled}
                   \cup {call.clients[j]["Name"] : j \in DOMAIN call.clients})
    => \A i \in DOMAIN estimates : estimates[i].full_name \in client_names

\* C24: a second run of ingest_clients_with_estimates on the same batch and
\* export, after the first returned without error, inserts no row into
\* clients.
C24_SecondRunInsertsNothing ==
    [][(/\ call.fn = "ingest_clients_with_estimates"
        /\ call.stage = 1 /\ call'.stage = 2
        /\ last.error = "")
       => clients' = clients]_vars

----------------------------------------------------------------------------
(* The keys of estimates and invoices: ingest_est_inv on one-row files     *)
(* whose key is a numeral, a numeral with a leading zero, not a numeral,   *)
(* or missing.                                                             *)

KeyCells == {NaN, <<"7">>, <<"0", "7">>, <<"x">>}

KeyFiles(table_name) ==
    {<<("ClientName" :> n)
       @@ ((IF table_name = "estimates" THEN "EstimateNo" ELSE "InvoiceNo") :> key)>> :
        n \in {NameA, NameB}, key \in KeyCells}

NextKeys ==
    \/ \E file \in OneClientFiles : ingest_clients_2(file) /\ UNCHANGED env
    \/ \E t \in DocTables : ingest_est_inv_start(t) /\ UNCHANGED env
    \/ \E df \in KeyFiles(run.table) : ingest_est_inv_file(df) /\ UNCHANGED env
    \/ ingest_est_inv_end /\ UNCHANGED env

SpecKeys == Init /\ [][NextKeys]_vars

\* C26: every row of estimates and of invoices that came through
\* clean_dataframe has a key, estimate_number or invoice_number, that is a
\* number.
C26_KeysNumeric ==
    /\ \A i \in DOMAIN estimates :
          cell(estimates[i], "source") = Joist =>
              cell(estimates[i], "estimate_number") # NaN
    /\ \A i \in DOMAIN invoices :
          cell(invoices[i], "source") = Joist =>
              cell(invoices[i], "invoice_number") # NaN

----------------------------------------------------------------------------
(* Two runs of ingest_clients_with_estimates against one database. A run   *)
(* reads the names of clients (line 139) and writes its rows (line 179) in *)
(* two statements, with no transaction around them: the statements of two  *)
(* runs interleave unless the runs are started one after the other.        *)

Runs == {1, 2}

RaceNames == {NameA, NameB_}

RaceInputs ==
    {[estimates |-> <<("Client Name" :> n) @@ ("Estimate #" :> <<"1">>)
                      @@ ("Date Created" :> <<"3">>) @@ ("Date Issued" :> <<"5">>)>>,
      clients |-> <<("Name" :> m) @@ ("Address 2" :> <<"x">>)>>] :
        n \in RaceNames, m \in RaceNames}

\* serial: whether the second run is started only when the first has ended.
InitRace ==
    /\ dup_name_clients = <<>> /\ estimates = <<>> /\ invoices = <<>>
    /\ run = Idle /\ last = NoOp /\ config = FullConfig /\ main = MainIdle
    /\ clients \in PipelineTables
    /\ \E serial \in BOOLEAN, given \in [Runs -> RaceInputs],
          ingestion_date \in IngestionDates :
         call = [fn |-> "race", serial |-> serial, ingestion_date |-> ingestion_date,
                 runs |-> [p \in Runs |->
                              [pc |-> "start", given |-> given[p],
                               db_names |-> {}, inserting |-> {}, error |-> ""]]]

\* Lines 84-144 of run p: the configuration, the engine, SELECT * FROM clients.
race_read(p) ==
    /\ call.fn = "race" /\ call.runs[p].pc = "start"
    /\ call.serial => \A q \in Runs \ {p} : call.runs[q].pc # "read"
    /\ run = Idle
    /\ IF load_config("ingest_clients_with_estimates", config) # ""
       THEN /\ last' = Aborted("ingest_clients_with_estimates", "clients",
                               call.runs[p].given,
                               load_config("ingest_clients_with_estimates", config))
                       @@ [mismatched |-> {}, orphaned |-> {}]
            /\ call' = [call EXCEPT !.runs[p].pc = "done",
                                    !.runs[p].error = last'.error]
       ELSE /\ call' = [call EXCEPT !.runs[p].pc = "read",
                                    !.runs[p].db_names = client_names]
            /\ UNCHANGED last
    /\ UNCHANGED <<clients, dup_name_clients, estimates, invoices, run, config, main>>

\* Lines 147-188 of run p, on the names it read.
race_write(p) ==
    /\ call.fn = "race" /\ call.runs[p].pc = "read"
    /\ LET given == call.runs[p].given
           done == reconcile(given.estimates, given.clients, call.ingestion_date,
                             call.runs[p].db_names)
       IN  /\ clients' = clients \o done.rows
           /\ last' = Ended("ingest_clients_with_estimates", "clients", given,
                            done.error, 0, {}, done.error = "")
                      @@ [mismatched |-> done.mismatched, orphaned |-> done.orphaned]
           /\ call' = [call EXCEPT !.runs[p].pc = "done",
                                   !.runs[p].inserting = done.inserting,
                                   !.runs[p].error = done.error]
    /\ UNCHANGED <<dup_name_clients, estimates, invoices, run, config, main>>
    /\ Fits

NextRace ==
    \/ \E p \in Runs : race_read(p)
    \/ \E p \in Runs : race_write(p)

SpecRace == InitRace /\ [][NextRace]_vars

RaceOver == call.fn = "race" /\ \A p \in Runs : call.runs[p].pc = "done"

RowsNamed(n) == {k \in DOMAIN clients : cell(clients[k], "full_name") = n}

\* C25: two runs given the same batch and export that read the same names
\* write the same rows, so that clients ends with these rows twice; and when
\* the runs follow one another, a name both insert is one that is stored
\* under another spelling than the one it was looked up by.
C25_RaceDuplicates ==
    RaceOver =>
        /\ (/\ call.runs[1].given = call.runs[2].given
            /\ call.runs[1].db_names = call.runs[2].db_names
            /\ call.runs[1].error = "" /\ call.runs[2].error = "")
           => /\ call.runs[1].inserting = call.runs[2].inserting
              /\ \A n \in call.runs[1].inserting :
                    Cardinality(RowsNamed(str_clean(n))) >= 2
        /\ call.serial =>
              \A n \in call.runs[1].inserting \cap call.runs[2].inserting :
                  str_clean(n) # n

\* Both runs read before either wrote, both inserted the name a, and clients
\* holds two rows of that name.
C25_Witness ==
    /\ RaceOver /\ ~call.serial
    /\ \A p \in Runs : NameA \in call.runs[p].inserting /\ NameA \notin call.runs[p].db_names
    /\ Cardinality(RowsNamed(NameA)) = 2

----------------------------------------------------------------------------
(* The columns of estimates and invoices: one-row exports that lack a      *)
(* mapped column or carry a column no mapping names.                       *)

Unmapped == "Notes"

\* The frames all_ingestor.py hands to ingest_estimate_invoice: the key and
\* the Subtotal column there or not, a column of no mapping there or not.
ColumnFrames(table_name) ==
    {<<[c \in ({"Client Name"} \cup cols) |->
           IF c = "Client Name" THEN NameA ELSE <<"1">>]>> :
        cols \in SUBSET {IF table_name = "estimates" THEN "Estimate #" ELSE "Invoice #",
                         "Subtotal", Unmapped}}

\* The files ingest_est_inv reads: every mapped column but, in some, the key,
\* and a column of no mapping there or not.
ColumnFiles(table_name) ==
    IF table_name \notin DocTables THEN {}
    ELSE {<<[c \in ((DOMAIN est_inv_mappings[table_name] \cup extra) \ lacking) |->
               IF c = "ClientName" THEN NameA ELSE <<"1">>]>> :
            extra \in SUBSET {Unmapped},
            lacking \in SUBSET {IF table_name = "estimates" THEN "EstimateNo"
                                ELSE "InvoiceNo"}}

NextColumns ==
    \/ \E file \in OneClientFiles : ingest_clients_2(file) /\ UNCHANGED env
    \/ \E t \in DocTables : \E df \in ColumnFrames(t) :
          ingest_estimate_invoice(df, t) /\ UNCHANGED env
    \/ \E t \in DocTables : ingest_est_inv_start(t) /\ UNCHANGED env
    \/ \E df \in ColumnFiles(run.table) : ingest_est_inv_file(df) /\ UNCHANGED env
    \/ ingest_est_inv_end /\ UNCHANGED env

SpecColumns == Init /\ [][NextColumns]_vars

\* C23: a run on a frame of estimates or invoices that is not ended by its
\* names does not fail, and every row it writes has every canonical column
\* of its table, and every column of the source that no mapping names with
\* the value the source gave it.
C23_UniformColumns ==
    (/\ last.op \in DocOps
     /\ last.given # <<>>
     /\ last.invalid = {}
     /\ last.error # "AttributeError")
    => /\ last.error = ""
       /\ \A i \in DOMAIN WrittenDocs :
             /\ required_of(last.table) \subseteq DOMAIN WrittenDocs[i]
             /\ \A j \in DOMAIN last.given :
                   Unmapped \in DOMAIN last.given[j] =>
                       cell(WrittenDocs[i], Unmapped) = last.given[j][Unmapped]

\* The same of ingest_estimate_invoice alone.
ExportColumnsUniform ==
    last.op = "ingest_estimate_invoice" => C23_UniformColumns

----------------------------------------------------------------------------
(* The cleaner on its own: clean_df_cols on a one-row frame, then on its   *)
(* own output.                                                             *)

MaxStrLen == 3

CleanAlphabet == {"a", " ", "_", "\"", "\f"}

CleanCols == {"full_name", "private_notes"}

CleanFrames ==
    {<<[full_name |-> n, private_notes |-> p]>> :
        n \in AllStrings(CleanAlphabet, MaxStrLen) \cup {NaN},
        p \in {NaN, <<"a">>, <<"_", "a">>}}

InitClean ==
    /\ InitDb
    /\ \E df \in CleanFrames, cols \in SUBSET CleanCols :
         call = [fn |-> "clean_df_cols", stage |-> 0, df |-> df, cols |-> cols,
                 once |-> <<>>, twice |-> <<>>]

CleanOnce ==
    /\ call.fn = "clean_df_cols" /\ call.stage = 0
    /\ call' = [call EXCEPT !.stage = 1, !.once = clean_df_cols(call.df, call.cols)]
    /\ UNCHANGED dbvars

CleanTwice ==
    /\ call.fn = "clean_df_cols" /\ call.stage = 1
    /\ call' = [call EXCEPT !.stage = 2, !.twice = clean_df_cols(call.once, call.cols)]
    /\ UNCHANGED dbvars

NextClean == CleanOnce \/ CleanTwice

SpecClean == InitClean /\ [][NextClean]_vars

HasBad(v) == IsStr(v) /\ \E i \in 1..Len(v) : v[i] \in bad_chars

Untrimmed(v) ==
    IsStr(v) /\ v # <<>> /\ (v[1] \in Whitespace \/ v[Len(v)] \in Whitespace)

\* C8: every value clean_df_cols produces in a targeted column holds none of
\* the disallowed characters and has no leading or trailing whitespace.
C8_DisallowedRemoved ==
    call.fn = "clean_df_cols" /\ call.stage >= 1 =>
        \A i \in DOMAIN call.once : \A c \in call.cols :
            ~HasBad(call.once[i][c]) /\ ~Untrimmed(call.once[i][c])

\* A targeted input with a disallowed character and leading whitespace has
\* been cleaned to a different string.
C8_Witness ==
    /\ call.fn = "clean_df_cols" /\ call.stage >= 1
    /\ "full_name" \in call.cols
    /\ HasBad(call.df[1].full_name) /\ Untrimmed(call.df[1].full_name)
    /\ call.once[1].full_name # call.df[1].full_name
    /\ call.once[1].full_name # <<>>

\* C9: clean_df_cols applied to its own output returns that output.
C9_Idempotent ==
    call.fn = "clean_df_cols" /\ call.stage = 2 => call.twice = call.once

\* The second application has run on a frame the first one changed.
C9_Witness ==
    /\ call.fn = "clean_df_cols" /\ call.stage = 2
    /\ call.cols = CleanCols
    /\ call.once # call.df
    /\ call.twice = call.once

----------------------------------------------------------------------------
(* The length caps on their own: one value of one capped column through    *)
(* clean_dataframe.                                                        *)

MaxOver == 3

Letters(n) == [i \in 1..n |-> IF i % 2 = 1 THEN "a" ELSE "b"]

\* Strings of every length up to MaxOver past the cap: plain, with leading or
\* trailing whitespace, with a double quote in front or inside.
CapInputs(max_len) ==
    {lead \o body \o trail :
        lead \in {<<>>, <<" ">>, <<"\"">>},
        body \in {Letters(n) : n \in 0..(max_len + MaxOver)}
                 \cup {<<"a", "\"">> \o Letters(n) : n \in 0..(max_len + MaxOver - 2)},
        trail \in {<<>>, <<" ">>}}

CapTables == {"clients", "dup_name_clients", "estimates", "invoices"}

InitCap ==
    /\ InitDb
    /\ \E t \in CapTables :
       \E col \in DOMAIN caps_of(t) :
       \E v \in CapInputs(caps_of(t)[col]) \cup {NaN} :
         call = [fn |-> "cap", stage |-> 0, table |-> t, col |-> col,
                 max_len |-> caps_of(t)[col], value |-> v, out |-> NaN]

CapApply ==
    /\ call.fn = "cap" /\ call.stage = 0
    /\ call' = [call EXCEPT !.stage = 1,
                            !.out = capped_value(call.table, call.col, call.value)]
    /\ UNCHANGED dbvars

NextCap == CapApply

SpecCap == InitCap /\ [][NextCap]_vars

CapDone == call.fn = "cap" /\ call.stage = 1 /\ IsStr(call.value)

\* C10 as stated: an input longer than the field's maximum comes out with
\* exactly the maximum length and as a prefix of the input; an input at or
\* below the maximum is not shortened by the cap.
C10_AsStated ==
    CapDone =>
        /\ Len(call.value) > call.max_len =>
             Len(call.out) = call.max_len /\ IsPrefix(call.out, call.value)
        /\ Len(call.value) <= call.max_len =>
             call.out = clean_string(call.value)

\* C10, amended: the cap applies to the value clean_string returns. When that
\* value is longer than the field's maximum the output has exactly the maximum
\* length and is a prefix of it; when it is not, the output is that value.
C10_CapOfCleaned ==
    CapDone =>
        LET cleaned == clean_string(call.value) IN
        /\ Len(cleaned) > call.max_len =>
             Len(call.out) = call.max_len /\ IsPrefix(call.out, cleaned)
        /\ Len(cleaned) <= call.max_len => call.out = cleaned

\* A value whose cleaned form is over the cap has been cut, and the cleaner
\* had changed it first.
C10_Witness ==
    /\ CapDone
    /\ Len(clean_string(call.value)) > call.max_len
    /\ clean_string(call.value) # call.value
    /\ Len(call.out) = call.max_len

----------------------------------------------------------------------------
(* clean_string of ingest.py on its own: one value cleaned, and the result *)
(* cleaned again.                                                          *)

StringAlphabet == {"a", " ", "\"", "\t"}

InitCleanString ==
    /\ InitDb
    /\ \E value \in AllStrings(StringAlphabet, MaxStrLen) \cup {NaN} :
         call = [fn |-> "clean_string", stage |-> 0, value |-> value,
                 once |-> NaN, twice |-> NaN]

CleanStringOnce ==
    /\ call.fn = "clean_string" /\ call.stage = 0
    /\ call' = [call EXCEPT !.stage = 1, !.once = clean_string(call.value)]
    /\ UNCHANGED dbvars

CleanStringTwice ==
    /\ call.fn = "clean_string" /\ call.stage = 1
    /\ call' = [call EXCEPT !.stage = 2, !.twice = clean_string(call.once)]
    /\ UNCHANGED dbvars

NextCleanString == CleanStringOnce \/ CleanStringTwice

SpecCleanString == InitCleanString /\ [][NextCleanString]_vars

\* C30: clean_string applied to its own result leaves it as it is, and the
\* result of clean_string on a string neither starts nor ends with
\* whitespace and holds no double quote.
C30_CleanStringIdempotent ==
    (call.fn = "clean_string" /\ call.stage = 2 /\ IsStr(call.value)) =>
        /\ call.twice = call.once
        /\ strip(call.once) = call.once
        /\ \A i \in 1..Len(call.once) : call.once[i] # "\""

----------------------------------------------------------------------------
(* The names of clients: the three paths that write to clients, on one-row *)
(* files whose name is plain, missing, or one character longer than the    *)
(* column.                                                                 *)

LongName == Letters(client_caps.full_name + 1)

NameFiles(names, id_header) == {FileOf(<<<<n, <<"5">>>>>>, id_header) : n \in names}

NameBatches ==
    {<<("Client Name" :> n) @@ ("Estimate #" :> <<"1">>)
       @@ ("Date Created" :> <<"3">>) @@ ("Date Issued" :> <<"5">>)>> :
        n \in {NameA, LongName}}

NameExports ==
    {<<("Name" :> n) @@ ("Address 2" :> <<"x">>)>> : n \in {NameA, LongName}}

NextNames ==
    \/ \E file \in NameFiles({NameABC, NaN, LongName}, "JoistID") :
          ingest_clients_1(file) /\ UNCHANGED env
    \/ \E file \in NameFiles({NameA, NaN, LongName}, IdHeader2) :
          ingest_clients_2(file) /\ UNCHANGED env
    \/ \E est_df \in NameBatches, clients_df \in NameExports, d \in IngestionDates :
          ingest_clients_with_estimates(est_df, clients_df, d) /\ UNCHANGED env

SpecNames == Init /\ [][NextNames]_vars

\* C27: every row of clients has a full_name, of at most 42 characters.
C27_NamesPresentAndCapped ==
    \A k \in DOMAIN clients :
        /\ cell(clients[k], "full_name") # NaN
        /\ Len(cell(clients[k], "full_name")) <= client_caps.full_name

\* The same of the rows ingest_clients_with_estimates inserted alone.
ReconciledNamesCapped ==
    \A k \in Reconciled :
        Len(cell(clients[k], "full_name")) <= client_caps.full_name

====
